---- MODULE Spec2Model ----
(***************************************************************************)
(* Model of bsd-kernel/src/uio.rs: the UioReader and UioWriter adapters    *)
(* over a kernel `uio` transfer descriptor.                                *)
(*                                                                         *)
(* Integer widths are scaled down so that every value of every type can be *)
(* enumerated: c_int / i32 is IntBits wide, usize / isize / off_t are      *)
(* WordBits wide.  All casts and range conversions are computed modulo     *)
(* these widths exactly as the Rust code computes them modulo 32 and 64.   *)
(***************************************************************************)
EXTENDS Integers, FiniteSets, Sequences, TLC

\* width of c_int / i32 in the model
IntBits == 3
\* width of usize / isize / off_t in the model
WordBits == 4

RECURSIVE Pow2(_)
Pow2(n) == IF n = 0 THEN 1 ELSE 2 * Pow2(n - 1)

I32_MAX == Pow2(IntBits - 1) - 1
ISIZE_MAX == Pow2(WordBits - 1) - 1
ISIZE_MIN == 0 - Pow2(WordBits - 1)

Isize == ISIZE_MIN..ISIZE_MAX
\* uio_resid of a descriptor handed to a driver callback is never negative
Resids == 0..ISIZE_MAX
\* a slice is never longer than isize::MAX bytes
BufLens == 0..ISIZE_MAX
\* non-zero status codes the primitive may report
Statuses == {1, 2}
Pointers == {"null", "uio"}

Min(a, b) == IF a < b THEN a ELSE b
Max(a, b) == IF a > b THEN a ELSE b

\* `x as usize` for a signed word x: two's complement reinterpretation
AsUsize(x) == x % Pow2(WordBits)

\* `x as i32` for a usize x: truncation to the low IntBits bits
AsI32(x) ==
  LET m == x % Pow2(IntBits)
  IN IF m > I32_MAX THEN m - Pow2(IntBits) ELSE m

\* signed word addition in the kernel (two's complement)
WrapIsize(x) ==
  LET m == x % Pow2(WordBits)
  IN IF m > ISIZE_MAX THEN m - Pow2(WordBits) ELSE m

\* usize::try_from(i64).is_ok()
TryIntoUsizeOk(x) == x >= 0

\* usize::checked_sub(a, b).is_some()
CheckedSubOk(a, b) == a >= b

\* i32::try_from(usize).is_ok()
TryIntoI32Ok(x) == x <= I32_MAX

\* usize `a - b` in a build without overflow checks
WrappingSub(a, b) == (a - b) % Pow2(WordBits)

\* match buf.len() - offset { x if x > 0 => x, _ => 0 }
AmountBuf(x) == IF x > 0 THEN x ELSE 0

VARIABLES
  uio_resid,        \* uio.uio_resid of the wrapped descriptor
  uio_offset,       \* uio.uio_offset of the wrapped descriptor
  overflow_checks,  \* build profile: arithmetic overflow panics (TRUE) or wraps
  adapter,          \* "none", "reader" or "writer": the adapter of this callback
  panicked,         \* the panic handler has been entered (it never returns)
  call              \* record of the last completed call

vars == <<uio_resid, uio_offset, overflow_checks, adapter, panicked, call>>

NoErr == [kind |-> "none", text |-> "", arg |-> <<>>]
Ok(v) == [tag |-> "Ok", value |-> v, err |-> NoErr]
Err(kind, text, arg) ==
  [tag |-> "Err", value |-> 0, err |-> [kind |-> kind, text |-> text, arg |-> arg]]
Panic == [tag |-> "Panic", value |-> 0, err |-> NoErr]
Ret(v) == [tag |-> "Ret", value |-> v, err |-> NoErr]

NoCall ==
  [op |-> "none", ptr |-> "-", len |-> 0, req |-> 0 - 1, result |-> Ret(0),
   resid_before |-> 0, offset_before |-> 0, invocations |-> <<>>]

\* the record of a completed call: req is the length the call settled on for
\* the primitive, before any conversion to c_int (-1 when it settled on none)
CallRec(op, ptr, len, req, result, invs) ==
  [op |-> op, ptr |-> ptr, len |-> len, req |-> req, result |-> result,
   resid_before |-> uio_resid, offset_before |-> uio_offset,
   invocations |-> invs]

\* a call that returns (or panics) without invoking the primitive
NoTransfer(op, ptr, len, req, result) ==
  /\ call' = CallRec(op, ptr, len, req, result, <<>>)
  /\ panicked' = (result.tag = "Panic")
  /\ UNCHANGED <<uio_resid, uio_offset>>

\* the transfer primitive: given the length n and the descriptor's resid,
\* the possible (status, bytes moved) outcomes
UioMoveOutcomes(n, resid) ==
  LET want == Min(Max(n, 0), resid)
  IN {[ret |-> 0, moved |-> want]}
     \cup {[ret |-> s, moved |-> k] : s \in Statuses, k \in 0..(want - 1)}

\* the descriptor after the primitive moved `moved` bytes
UioAdvance(moved) ==
  /\ uio_resid' = uio_resid - moved
  /\ uio_offset' = WrapIsize(uio_offset + moved)

Init ==
  /\ uio_resid \in Resids
  /\ uio_offset \in Isize
  /\ overflow_checks \in BOOLEAN
  /\ adapter = "none"
  /\ panicked = FALSE
  /\ call = NoCall

----
\* UioReader::new / UioWriter::new: NonNull::new(uio).unwrap()
NonNullUnwrapOk(ptr) == ptr # "null"

NewReader(ptr) ==
  /\ ~panicked /\ adapter = "none"
  /\ IF NonNullUnwrapOk(ptr)
       THEN /\ adapter' = "reader"
            /\ NoTransfer("new_reader", ptr, 0, 0 - 1, Ret(0))
       ELSE /\ adapter' = adapter
            /\ NoTransfer("new_reader", ptr, 0, 0 - 1, Panic)
  /\ UNCHANGED overflow_checks

NewWriter(ptr) ==
  /\ ~panicked /\ adapter = "none"
  /\ IF NonNullUnwrapOk(ptr)
       THEN /\ adapter' = "writer"
            /\ NoTransfer("new_writer", ptr, 0, 0 - 1, Ret(0))
       ELSE /\ adapter' = adapter
            /\ NoTransfer("new_writer", ptr, 0, 0 - 1, Panic)
  /\ UNCHANGED overflow_checks

\* the adapter is dropped at the end of the driver callback
Drop ==
  /\ ~panicked /\ adapter # "none"
  /\ adapter' = "none"
  /\ call' = CallRec("drop", "-", 0, 0 - 1, Ret(0), <<>>)
  /\ UNCHANGED <<uio_resid, uio_offset, overflow_checks, panicked>>

\* UioReader::residual / UioWriter::residual
Residual ==
  /\ ~panicked /\ adapter # "none"
  /\ NoTransfer("residual", "-", 0, 0 - 1, Ret(uio_resid))
  /\ UNCHANGED <<adapter, overflow_checks>>

----
\* the three fallible conversions that open UioReader::read; the result is
\* the error returned, or NoErr when the length is accepted
ReadLenError(len, offset) ==
  IF ~TryIntoUsizeOk(offset)
    THEN [kind |-> "InvalidInput", text |-> "uio.uio_offset out of usize range",
          arg |-> <<>>]
  ELSE IF ~CheckedSubOk(len, offset)
    THEN [kind |-> "InvalidInput",
          text |-> "buf.len() - uio.uio_offset out of usize range", arg |-> <<>>]
  ELSE IF ~TryIntoI32Ok(len - offset)
    THEN [kind |-> "InvalidInput",
          text |-> "buf.len() - uio.uio_offset out of i32 range", arg |-> <<>>]
  ELSE NoErr

\* a reader that takes every status of the primitive for success
ReadResult_IgnoreStatus(ret, orig_resid, resid) ==
  IF TryIntoUsizeOk(orig_resid - resid)
    THEN Ok(orig_resid - resid)
    ELSE Err("Other", "result out of range", <<>>)

\* match ret { 0 => (orig_resid - self.residual()).try_into()..., _ => Err(..) }
ReadResult(ret, orig_resid, resid) ==
  IF ret = 0
    THEN IF TryIntoUsizeOk(orig_resid - resid)
           THEN Ok(orig_resid - resid)
           ELSE Err("Other", "result out of range", <<>>)
    ELSE Err("Other", "UioReader::read uiomove failed.", <<>>)

\* UioReader::read(buf) with buf.len() = len
Read(len) ==
  /\ ~panicked /\ adapter = "reader"
  /\ LET e == ReadLenError(len, uio_offset)
     IN IF e # NoErr
          THEN NoTransfer("read", "-", len,
                          IF TryIntoUsizeOk(uio_offset) /\ CheckedSubOk(len, uio_offset)
                            THEN len - uio_offset ELSE 0 - 1,
                          [tag |-> "Err", value |-> 0, err |-> e])
          ELSE \E out \in UioMoveOutcomes(len - uio_offset, uio_resid) :
                 /\ UioAdvance(out.moved)
                 /\ call' = CallRec("read", "-", len, len - uio_offset,
                                    ReadResult(out.ret, uio_resid, uio_resid'),
                                    <<[start |-> uio_offset, n |-> len - uio_offset,
                                       ret |-> out.ret, moved |-> out.moved]>>)
                 /\ panicked' = FALSE
  /\ UNCHANGED <<adapter, overflow_checks>>

----
\* let amount = cmp::min(amount_buf, amount_uio), with the usize subtraction
\* buf.len() - offset wrapping (a build without overflow checks)
WriteAmount(len, offset, resid) ==
  Min(AmountBuf(WrappingSub(len, AsUsize(offset))), AsUsize(resid))

\* `buf.len() - offset` overflows and the build panics on overflow
WriteSubPanics(len, offset) == overflow_checks /\ len < AsUsize(offset)

\* a writer without the early return
WriteEarlyReturn_Never(amount) == FALSE

\* if amount == 0 { return Ok(offset) }
WriteEarlyReturn(amount) == amount = 0

\* buf[offset..] is out of range: the slice index panics
WriteSlicePanics(len, offset) == AsUsize(offset) > len

\* match ret { 0 => Ok(amount), _ => Err(Other, format!("... {}", ret)) }
WriteResult(ret, amount) ==
  IF ret = 0
    THEN Ok(amount)
    ELSE Err("Other", "uiomove failed with return code {}", <<ret>>)

\* UioWriter::write(buf) with buf.len() = len
Write(len) ==
  /\ ~panicked /\ adapter = "writer"
  /\ LET offset == AsUsize(uio_offset)
         amount == WriteAmount(len, uio_offset, uio_resid)
     IN IF WriteSubPanics(len, uio_offset)
          THEN NoTransfer("write", "-", len, 0 - 1, Panic)
        ELSE IF WriteEarlyReturn(amount)
          THEN NoTransfer("write", "-", len, amount, Ok(offset))
        ELSE IF WriteSlicePanics(len, uio_offset)
          THEN NoTransfer("write", "-", len, 0 - 1, Panic)
        ELSE \E out \in UioMoveOutcomes(AsI32(amount), uio_resid) :
               /\ UioAdvance(out.moved)
               /\ call' = CallRec("write", "-", len, amount,
                                  WriteResult(out.ret, amount),
                                  <<[start |-> offset, n |-> AsI32(amount),
                                     ret |-> out.ret, moved |-> out.moved]>>)
               /\ panicked' = FALSE
  /\ UNCHANGED <<adapter, overflow_checks>>

\* a flush that discards what is left of the transfer
Flush_Drain ==
  /\ ~panicked /\ adapter = "writer"
  /\ call' = CallRec("flush", "-", 0, 0 - 1, Ok(0), <<>>)
  /\ uio_resid' = 0
  /\ UNCHANGED <<uio_offset, adapter, overflow_checks, panicked>>

\* UioWriter::flush
Flush ==
  /\ ~panicked /\ adapter = "writer"
  /\ NoTransfer("flush", "-", 0, 0 - 1, Ok(0))
  /\ UNCHANGED <<adapter, overflow_checks>>

----
Next ==
  \/ \E ptr \in Pointers : NewReader(ptr)
  \/ \E ptr \in Pointers : NewWriter(ptr)
  \/ \E len \in BufLens : Read(len)
  \/ \E len \in BufLens : Write(len)
  \/ Flush
  \/ Residual
  \/ Drop

Spec == Init /\ [][Next]_vars

TypeOK ==
  /\ uio_resid \in Resids
  /\ uio_offset \in Isize
  /\ adapter \in {"none", "reader", "writer"}
  /\ panicked \in BOOLEAN

----
\* the last call was a read or a write
IsIO == call.op \in {"read", "write"}
IsOk == call.result.tag = "Ok"
IsInvalidInput ==
  call.result.tag = "Err" /\ call.result.err.kind = "InvalidInput"
Invoked == Len(call.invocations)
DescriptorUntouched ==
  uio_resid = call.resid_before /\ uio_offset = call.offset_before

\* C1: whenever read or write returns Ok(amount), amount equals remaining
\* before the call minus remaining after it, and remaining did not grow.
C1_AccountingEquality ==
  (IsIO /\ IsOk) =>
    /\ call.result.value = call.resid_before - uio_resid
    /\ uio_resid <= call.resid_before

\* C2: read and write with an empty buffer return Ok(0) and leave remaining
\* and offset unchanged, in every descriptor state.
C2_ZeroLengthNoOp ==
  (IsIO /\ call.len = 0) =>
    /\ IsOk
    /\ call.result.value = 0
    /\ DescriptorUntouched

\* C3: with remaining = 0, read and write return Ok(0) for every buffer
\* within the size domain and every offset.
C3_ExhaustedDescriptor ==
  (IsIO /\ call.resid_before = 0 /\ call.len <= I32_MAX) =>
    (IsOk /\ call.result.value = 0)

\* C4: a call whose length for the primitive exceeds the c_int maximum
\* returns InvalidInput, invokes nothing and leaves remaining unchanged.
C4_SizeDomainRejection ==
  (IsIO /\ call.req > I32_MAX) =>
    /\ IsInvalidInput
    /\ Invoked = 0
    /\ uio_resid = call.resid_before

C6_PartialWrite ==
  ( /\ call.op = "write"
    /\ Invoked = 1
    /\ call.resid_before >= 0
    /\ call.len > call.resid_before
    /\ call.len <= I32_MAX ) =>
      (call.invocations[1].ret = 0 =>
         /\ call.invocations[1].moved = call.resid_before
         /\ uio_resid = 0
         /\ IsOk
         /\ call.result.value = call.resid_before)

\* C7: a call panics if and only if it is a construction from a null
\* descriptor pointer.
C7_PanicOnlyOnNull ==
  (call.result.tag = "Panic") <=>
    (call.op \in {"new_reader", "new_writer"} /\ call.ptr = "null")

C9_MonotonicRemaining ==
  [][ /\ uio_resid' <= uio_resid
      /\ Len(call'.invocations) = 0 => UNCHANGED <<uio_resid, uio_offset>>
      /\ Len(call'.invocations) > 0 =>
           uio_resid' = uio_resid - call'.invocations[1].moved
      /\ call'.op \in {"flush", "residual"} =>
           UNCHANGED <<uio_resid, uio_offset>> ]_vars

C9_Witness ==
  /\ call.op = "write"
  /\ Invoked = 1
  /\ uio_resid < call.resid_before
  /\ uio_resid > 0

\* C10: every primitive invocation gets a start s and a length n with
\* 0 <= s, 0 <= n and s + n <= buffer length.
C10_BufferBounds ==
  \A i \in 1..Invoked :
    /\ 0 <= call.invocations[i].start
    /\ 0 <= call.invocations[i].n
    /\ call.invocations[i].start + call.invocations[i].n <= call.len

====
